---- MODULE Spec2Model ----
(***************************************************************************)
(* A model of bot.py, the what-if / portfolio Telegram bot: the symbol     *)
(* resolver, the two quote caches, the CoinGecko lookups, the PnL          *)
(* arithmetic, the portfolio command and the JSON position store.          *)
(*                                                                         *)
(* Every function of bot.py that the handlers call is synchronous: it      *)
(* runs from its first line to its return (or to the exception it raises)  *)
(* without yielding the event loop.  Such a function is an operator that   *)
(* maps its arguments, the state it reads and the responses of the HTTP    *)
(* calls it issues to its outcome, the state it leaves and the list of     *)
(* HTTP calls it issued.  The handlers are coroutines: another handler can *)
(* run only while one is suspended at an `await`.                          *)
(***************************************************************************)
EXTENDS Integers, Sequences, FiniteSets, TLC

(***************************************************************************)
(* Python values.  None, and a value that is present.                      *)
(***************************************************************************)
None == [none |-> TRUE]
Some(x) == [val |-> x]
IsSome(o) == "val" \in DOMAIN o

\* JSON null, and a key that the object does not hold.
JNull == [null |-> TRUE]
Absent == [absent |-> TRUE]
\* A JSON string or number.
J(x) == [json |-> x]
IsJ(j) == "json" \in DOMAIN j

\* How a synchronous function ends: it returns a value, or raises.
Return(v, calls) == [out |-> "return", val |-> v, calls |-> calls]
Raise(exc, calls) == [out |-> "raise", exc |-> exc, calls |-> calls]

(***************************************************************************)
(* Strings are sequences of one-character strings, so that str.lower(),    *)
(* str.upper() and str.strip() do what they do in Python.                  *)
(***************************************************************************)
LowerAlpha == <<"a","b","c","d","e","f","g","h","i","j","k","l","m",
                "n","o","p","q","r","s","t","u","v","w","x","y","z">>
UpperAlpha == <<"A","B","C","D","E","F","G","H","I","J","K","L","M",
                "N","O","P","Q","R","S","T","U","V","W","X","Y","Z">>
Whitespace == {" ", "\t", "\n"}

lower_char(c) ==
    IF \E i \in DOMAIN UpperAlpha : UpperAlpha[i] = c
    THEN LowerAlpha[CHOOSE i \in DOMAIN UpperAlpha : UpperAlpha[i] = c]
    ELSE c

upper_char(c) ==
    IF \E i \in DOMAIN LowerAlpha : LowerAlpha[i] = c
    THEN UpperAlpha[CHOOSE i \in DOMAIN LowerAlpha : LowerAlpha[i] = c]
    ELSE c

lower(s) == [i \in 1..Len(s) |-> lower_char(s[i])]
upper(s) == [i \in 1..Len(s) |-> upper_char(s[i])]

RECURSIVE lstrip(_)
lstrip(s) == IF s # <<>> /\ Head(s) \in Whitespace THEN lstrip(Tail(s)) ELSE s

RECURSIVE rstrip(_)
rstrip(s) ==
    IF s # <<>> /\ s[Len(s)] \in Whitespace
    THEN rstrip(SubSeq(s, 1, Len(s) - 1))
    ELSE s

strip(s) == lstrip(rstrip(s))

(***************************************************************************)
(* CONFIG                                                                  *)
(***************************************************************************)
PRICE_TTL == 20
MCAP_TTL == 60

\* The alias table: <<ticker, CoinGecko id>>.
CG_MAPPING ==
    {
       <<<<"b","t","c">>, "bitcoin">>,
       <<<<"e","t","h">>, "ethereum">>,
       <<<<"s","o","l">>, "solana">>,
       <<<<"b","n","b">>, "binancecoin">>,
       <<<<"x","r","p">>, "ripple">>,
       <<<<"a","d","a">>, "cardano">>,
       <<<<"d","o","g","e">>, "dogecoin">>,
       <<<<"t","o","n">>, "the-open-network">>,
       <<<<"t","r","x">>, "tron">>,
       <<<<"m","a","t","i","c">>, "matic-network">>,
       <<<<"a","v","a","x">>, "avalanche-2">>,
       <<<<"l","t","c">>, "litecoin">>,
       <<<<"u","n","i">>, "uniswap">>,
       <<<<"l","i","n","k">>, "chainlink">>,
       <<<<"a","t","o","m">>, "cosmos">>,
       <<<<"n","e","a","r">>, "near">>,
       <<<<"a","r","b">>, "arbitrum">>,
       <<<<"o","p">>, "optimism">>,
       <<<<"s","e","i">>, "sei-network">>,
       <<<<"i","n","j">>, "injective-protocol">>,
       <<<<"u","s","d","c">>, "usd-coin">>,
       <<<<"u","s","d","t">>, "tether">>,
       <<<<"d","a","i">>, "dai">>,
       <<<<"f","r","a","x">>, "frax">>,
       <<<<"s","h","i","b">>, "shiba-inu">>,
       <<<<"p","e","p","e">>, "pepe">>,
       <<<<"b","o","n","k">>, "bonk">>,
       <<<<"w","i","f">>, "dogwifcoin">>,
       <<<<"f","l","o","k">>, "floki">>
    }

CG_KEYS == {m[1] : m \in CG_MAPPING}
CG_ID(sym) == (CHOOSE m \in CG_MAPPING : m[1] = sym)[2]

(***************************************************************************)
(* HTTP + COINGECKO HELPERS                                                *)
(*                                                                         *)
(* What session.get does is the environment's choice: it raises, or it     *)
(* yields a response with a status code and a body.  A body is described   *)
(* by what r.json() makes of it: "invalid" (r.json() raises), "null",      *)
(* "array" (a non-empty JSON array), "empty" (an empty array or object) or *)
(* "object" with the fields the endpoint's reader looks at.                *)
(***************************************************************************)
NetworkError == [kind |-> "exception"]
Response(status, body) == [kind |-> "response", status |-> status, body |-> body]
\* The response of a call that is never issued.
NoCall == [kind |-> "nocall"]

InvalidBody == [kind |-> "invalid"]
NullBody == [kind |-> "null"]
ArrayBody == [kind |-> "array", first |-> JNull]
EmptyBody == [kind |-> "empty"]

safe_get(resp) ==
    IF resp.kind = "exception" THEN None
    ELSE IF resp.status # 200 THEN None
    ELSE Some(resp)

\* dict.get(key) of a JSON field: the value, None when the key is absent or null.
py_get(field) == IF IsJ(field) THEN Some(field.json) ELSE None

\* Python's `not x` for what resolve_token_id hands back (None, or a string).
falsy(o) == o = None \/ o.val = ""

\* The for loop of resolve_token_id over coins[i..], and the fallback after it.
RECURSIVE match_coins(_, _, _, _)
match_coins(coins, i, sym, calls) ==
    IF i > Len(coins) THEN Return(py_get(coins[1].id), calls)
    ELSE LET c == coins[i] IN
         \* c.get("symbol", "") is None for a null symbol: None.lower() raises
         IF c.symbol = JNull THEN Raise("AttributeError", calls)
         ELSE IF lower(IF c.symbol = Absent THEN <<>> ELSE c.symbol.json) = sym
              THEN Return(py_get(c.id), calls)
              ELSE match_coins(coins, i + 1, sym, calls)

\* resolve_token_id from its second line on, sym being the normalised symbol
resolve_sym(sym, search) ==
    IF sym \in CG_KEYS THEN Return(Some(CG_ID(sym)), <<>>)
    ELSE LET r == safe_get(search)
             calls == <<"search">>
         IN
         IF r = None THEN Return(None, calls)
         ELSE LET body == r.val.body IN
              \* r.json() raises, or a non-empty array has no .get: except, return None
              IF body.kind \in {"invalid", "array"} THEN Return(None, calls)
              \* (r.json() or {}).get("coins", []) is []
              ELSE IF body.kind \in {"null", "empty"} THEN Return(None, calls)
              ELSE IF ~IsJ(body.coins) THEN Return(None, calls)
              ELSE IF body.coins.json = <<>> THEN Return(None, calls)
              ELSE match_coins(body.coins.json, 1, sym, calls)

\* a resolver that forgets to trim the symbol
resolve_token_id_untrimmed(symbol, search) == resolve_sym(lower(symbol), search)

resolve_token_id(symbol, search) == resolve_sym(strip(lower(symbol)), search)

get_token_name(symbol, search, detail) ==
    LET t == resolve_token_id(symbol, search) IN
    IF t.out = "raise" THEN t
    ELSE IF falsy(t.val) THEN Return(None, t.calls)
    ELSE LET r == safe_get(detail)
             calls == Append(t.calls, "coins")
         IN
         IF r = None THEN Return(None, calls)
         ELSE LET body == r.val.body IN
              IF body.kind \in {"invalid", "array"} THEN Return(None, calls)
              ELSE IF body.kind \in {"null", "empty"} THEN Return(None, calls)
              ELSE Return(py_get(body.name), calls)

(***************************************************************************)
(* The quote caches: a dict from the upper-cased symbol to the last value  *)
(* fetched and the time the fetching call read at its start.               *)
(***************************************************************************)
dict_get(d, k) == IF k \in DOMAIN d THEN Some(d[k]) ELSE None
\* an entry stamped later than it is handed in
dict_set_late(d, k, v) ==
    [x \in DOMAIN d \cup {k} |-> IF x = k THEN [v EXCEPT !.ts = v.ts + 1] ELSE d[x]]

dict_set(d, k, v) == [x \in DOMAIN d \cup {k} |-> IF x = k THEN v ELSE d[x]]

\* an entry that is still served at the boundary now - ts = ttl
fresh_inclusive(now, ts, ttl) == now - ts <= ttl

\* the test `now - cached["ts"] < TTL` of both lookups
fresh(now, ts, ttl) == now - ts < ttl

\* What a cached lookup leaves: how it ended, and the cache after it.
Quote(end, cache) == [out |-> end.out, end |-> end, calls |-> end.calls, cache |-> cache]

\* a lookup that answers a failed refresh with the entry it had
give_up_stale(cached, calls, cache) ==
    Quote(Return(IF cached = None THEN None
                 ELSE IF "price" \in DOMAIN cached.val THEN Some(cached.val.price)
                 ELSE Some(cached.val.mcap),
                 calls),
          cache)

\* a lookup that empties its cache when a refresh fails
give_up_flush(cached, calls, cache) == Quote(Return(None, calls), <<>>)

\* a lookup that repeats its requests before it gives up
give_up_retry(cached, calls, cache) == Quote(Return(None, calls \o calls), cache)

\* the `return None` exits of a lookup that found no fresh entry: the cache is left alone
give_up(cached, calls, cache) == Quote(Return(None, calls), cache)

get_current_price_usd(symbol, now, cache, search, spot) ==
    LET sym_up == upper(symbol)
        cached == dict_get(cache, sym_up)
    IN
    IF cached # None /\ fresh(now, cached.val.ts, PRICE_TTL)
    THEN Quote(Return(Some(cached.val.price), <<>>), cache)
    ELSE LET t == resolve_token_id(symbol, search) IN
         IF t.out = "raise" THEN Quote(t, cache)
         ELSE IF falsy(t.val) THEN give_up(cached, t.calls, cache)
         ELSE LET r == safe_get(spot)
                  calls == Append(t.calls, "simple/price")
              IN
              IF r = None THEN give_up(cached, calls, cache)
              ELSE LET body == r.val.body IN
                   IF body.kind # "object" THEN give_up(cached, calls, cache)
                   ELSE IF body.entry = JNull THEN give_up(cached, calls, cache)
                   ELSE IF body.entry = Absent THEN give_up(cached, calls, cache)
                   ELSE LET price == py_get(body.entry.usd) IN
                        IF price = None THEN give_up(cached, calls, cache)
                        ELSE Quote(Return(price, calls),
                                   dict_set(cache, sym_up,
                                            [price |-> price.val, ts |-> now]))

get_token_market_cap(symbol, now, cache, search, markets) ==
    LET sym_up == upper(symbol)
        cached == dict_get(cache, sym_up)
    IN
    IF cached # None /\ fresh(now, cached.val.ts, MCAP_TTL)
    THEN Quote(Return(Some(cached.val.mcap), <<>>), cache)
    ELSE LET t == resolve_token_id(symbol, search) IN
         IF t.out = "raise" THEN Quote(t, cache)
         ELSE IF falsy(t.val) THEN give_up(cached, t.calls, cache)
         ELSE LET r == safe_get(markets)
                  calls == Append(t.calls, "markets")
              IN
              IF r = None THEN give_up(cached, calls, cache)
              ELSE LET body == r.val.body IN
                   IF body.kind # "array" THEN give_up(cached, calls, cache)
                   ELSE IF body.first = JNull THEN give_up(cached, calls, cache)
                   ELSE LET mcap == py_get(body.first.market_cap) IN
                        IF mcap = None THEN give_up(cached, calls, cache)
                        ELSE Quote(Return(mcap, calls),
                                   dict_set(cache, sym_up,
                                            [mcap |-> mcap.val, ts |-> now]))

(***************************************************************************)
(* Dates are <<year, month, day>>; strptime(date_str, "%Y-%m-%d") raises   *)
(* ValueError for a month or a day that does not exist, and strftime       *)
(* writes the day first.                                                   *)
(***************************************************************************)
is_leap(y) == (y % 4 = 0 /\ y % 100 # 0) \/ y % 400 = 0
days_in_month(y, m) ==
    IF m = 2 THEN (IF is_leap(y) THEN 29 ELSE 28)
    ELSE IF m \in {4, 6, 9, 11} THEN 30 ELSE 31

strptime(date_str) ==
    IF /\ date_str[1] \in 1..9999
       /\ date_str[2] \in 1..12
       /\ date_str[3] \in 1..days_in_month(date_str[1], date_str[2])
    THEN Some([year |-> date_str[1], month |-> date_str[2], day |-> date_str[3]])
    ELSE None

strftime(dt) == <<dt.day, dt.month, dt.year>>

get_historical_price_usd(symbol, date_str, search, history) ==
    LET t == resolve_token_id(symbol, search) IN
    IF t.out = "raise" THEN t
    ELSE IF falsy(t.val) THEN Return(None, t.calls)
    ELSE LET dt == strptime(date_str) IN
         IF dt = None THEN Return(None, t.calls)
         ELSE LET r == safe_get(history)
                  calls == Append(t.calls, "history")
              IN
              IF r = None THEN Return(None, calls)
              ELSE LET body == r.val.body IN
                   IF body.kind # "object" THEN Return(None, calls)
                   ELSE IF body.usd = Absent THEN Return(None, calls)
                   ELSE Return(py_get(body.usd), calls)

(***************************************************************************)
(* Numbers.  Amounts and prices are integers here; a quotient is the exact *)
(* fraction <<numerator, denominator>> in lowest terms (the code computes  *)
(* in binary floating point, whose rounding the model leaves out).         *)
(***************************************************************************)
abs(x) == IF x < 0 THEN -x ELSE x

RECURSIVE gcd(_, _)
gcd(a, b) == IF b = 0 THEN a ELSE gcd(b, a % b)

frac(n, d) ==
    LET g == gcd(abs(n), abs(d))
        s == IF d < 0 THEN -1 ELSE 1
    IN <<(s * n) \div g, (s * d) \div g>>

num(x) == frac(x, 1)
mul(a, b) == frac(a[1] * b[1], a[2] * b[2])
sub(a, b) == frac(a[1] * b[2] - b[1] * a[2], a[2] * b[2])
add(a, b) == frac(a[1] * b[2] + b[1] * a[2], a[2] * b[2])
\* a / b for b # 0
div(a, b) == frac(a[1] * b[2], a[2] * b[1])
is_zero(a) == a[1] = 0

(***************************************************************************)
(* FORMATTING & DEGEN SCORE                                                *)
(*                                                                         *)
(* Market caps are counted in millions of USD (every threshold of          *)
(* _mcap_risk_score is a whole number of millions), scores in tenths.      *)
(***************************************************************************)
\* the two lowest tiers the wrong way round
mcap_risk_score_swapped(mcap) ==
    IF mcap >= 10000 THEN 1
    ELSE IF mcap >= 1000 THEN 3
    ELSE IF mcap >= 200 THEN 5
    ELSE IF mcap >= 50 THEN 7
    ELSE IF mcap >= 5 THEN 10
    ELSE 8

mcap_risk_score(mcap) ==
    IF mcap >= 10000 THEN 1
    ELSE IF mcap >= 1000 THEN 3
    ELSE IF mcap >= 200 THEN 5
    ELSE IF mcap >= 50 THEN 7
    ELSE IF mcap >= 5 THEN 8
    ELSE 10

vol_risk_score(abs_change_24h) ==
    IF abs_change_24h < 2 THEN 2
    ELSE IF abs_change_24h < 5 THEN 4
    ELSE IF abs_change_24h < 10 THEN 6
    ELSE IF abs_change_24h < 20 THEN 8
    ELSE 10

max2(a, b) == IF a >= b THEN a ELSE b
min2(a, b) == IF a <= b THEN a ELSE b

\* 0.6 * m_score + 0.4 * v_score, clamped to [1, 10], in tenths
blend(m_score, v_score) == max2(10, min2(100, 6 * m_score + 4 * v_score))

\* buckets that leave out their upper bound
degen_label_exclusive(score) ==
    IF score < 20 THEN "Blue-chip"
    ELSE IF score < 40 THEN "Large-cap"
    ELSE IF score < 60 THEN "Mid-cap"
    ELSE IF score < 80 THEN "Microcap"
    ELSE "Meme"

degen_label(score) ==
    IF score <= 20 THEN "Blue-chip"
    ELSE IF score <= 40 THEN "Large-cap"
    ELSE IF score <= 60 THEN "Mid-cap"
    ELSE IF score <= 80 THEN "Microcap"
    ELSE "Meme"

degen_score(mcap, change_24h) ==
    IF mcap = None THEN None
    ELSE LET m_score == mcap_risk_score(mcap.val)
             v_score == IF change_24h = None THEN 6
                        ELSE vol_risk_score(abs(change_24h.val))
             score == blend(m_score, v_score)
         IN Some([score |-> score, label |-> degen_label(score)])

(***************************************************************************)
(* PNL CALC (WHATIFDATE ONLY)                                              *)
(*                                                                         *)
(* rs holds the responses of the HTTP calls the function may issue, and    *)
(* now is the time get_current_price_usd reads when it is entered.         *)
(***************************************************************************)
calc_what_if_date(symbol, usd_amount, date_str, now, cache, rs) ==
    LET h == get_historical_price_usd(symbol, date_str, rs.hsearch, rs.history) IN
    IF h.out = "raise" THEN Quote(h, cache)
    ELSE IF h.val = None THEN Quote(Return(None, h.calls), cache)
    ELSE
    LET q == get_current_price_usd(symbol, now, cache, rs.psearch, rs.spot)
        calls2 == h.calls \o q.calls
    IN
    IF q.out = "raise" THEN Quote(Raise(q.end.exc, calls2), q.cache)
    ELSE IF q.end.val = None THEN Quote(Return(None, calls2), q.cache)
    ELSE
    LET buy_price == h.val.val
        current == q.end.val.val
    IN
    IF buy_price = 0 THEN Quote(Raise("ZeroDivisionError", calls2), q.cache)
    ELSE
    LET tokens == div(num(usd_amount), num(buy_price))
        current_value == mul(tokens, num(current))
        profit == sub(current_value, num(usd_amount))
        pct == IF usd_amount # 0
               THEN mul(div(profit, num(usd_amount)), num(100))
               ELSE num(0)
        n == get_token_name(symbol, rs.nsearch, rs.detail)
        calls3 == calls2 \o n.calls
    IN
    IF n.out = "raise" THEN Quote(Raise(n.exc, calls3), q.cache)
    ELSE Quote(Return(Some([name |-> IF n.val = None \/ n.val.val = <<>>
                                     THEN upper(symbol) ELSE n.val.val,
                            symbol |-> upper(symbol),
                            usd_amount |-> usd_amount,
                            tokens |-> tokens,
                            buy_price |-> buy_price,
                            buy_date |-> date_str,
                            current_price |-> current,
                            initial_value |-> usd_amount,
                            current_value |-> current_value,
                            profit_abs |-> profit,
                            profit_pct |-> pct]),
                      calls3),
               q.cache)

(***************************************************************************)
(* TELEGRAM COMMANDS: /ath                                                 *)
(*                                                                         *)
(* The body of coins/{id}: name, and market_data (md) with the leaves the  *)
(* handler reads; Absent stands for a key that is missing on the path to   *)
(* the leaf, JNull for a leaf that is null.  What the handler sends is a   *)
(* record naming the reply; a handler that raises sends nothing.           *)
(***************************************************************************)
Reply(kind, calls) == Return(Some([reply |-> kind]), calls)

\* datetime.fromisoformat(iso).date().isoformat(): the date of a timestamp, and
\* the value as it came when that raises (None, or a string that is no timestamp).
ath_date_str(ath_date_iso) ==
    IF ath_date_iso = None THEN None
    ELSE IF "date" \in DOMAIN ath_date_iso.val THEN Some(ath_date_iso.val.date)
    ELSE ath_date_iso

ath(args, search, detail) ==
    IF Len(args) # 1 THEN Reply("usage", <<>>)
    ELSE
    LET symbol == args[1]
        t == resolve_token_id(symbol, search)
    IN
    IF t.out = "raise" THEN t
    ELSE IF falsy(t.val) THEN Reply("could not resolve", t.calls)
    ELSE
    LET r == safe_get(detail)
        calls == Append(t.calls, "coins")
    IN
    IF r = None THEN Reply("could not fetch", calls)
    ELSE
    LET body == r.val.body IN
    IF body.kind # "object" THEN Reply("not available", calls)
    ELSE IF body.md = Absent THEN Reply("not available", calls)
    ELSE IF \E f \in {"ath", "ath_date", "current_price", "market_cap"} :
                body.md[f] = Absent
    THEN Reply("not available", calls)
    ELSE
    LET name == IF body.name = Absent THEN Some(upper(symbol)) ELSE py_get(body.name)
        ath_price == py_get(body.md.ath)
        current_price == py_get(body.md.current_price)
        mcap == py_get(body.md.market_cap)
        change_24h == py_get(body.md.change)
        date == ath_date_str(py_get(body.md.ath_date))
    IN
    \* current_price / ath_price with current_price None
    IF ath_price # None /\ ath_price.val > 0 /\ current_price = None
    THEN Raise("TypeError", calls)
    \* f"{ath_price:,.4f}", f"{current_price:,.4f}" with None
    ELSE IF ath_price = None \/ current_price = None THEN Raise("TypeError", calls)
    ELSE
    LET diff_pct == IF ath_price.val > 0
                    THEN mul(sub(div(num(current_price.val), num(ath_price.val)),
                                 num(1)), num(100))
                    ELSE num(0)
    IN Return(Some([reply |-> "ath",
                    name |-> name,
                    ath_price |-> ath_price.val,
                    ath_date |-> date,
                    current_price |-> current_price.val,
                    mcap |-> mcap,
                    diff |-> IF diff_pct[1] < 0 THEN "below"
                             ELSE IF diff_pct[1] > 0 THEN "above" ELSE "none",
                    degen |-> degen_score(mcap, change_24h)]),
              calls)

(***************************************************************************)
(* Bounds, and the inputs the environment chooses from.                    *)
(***************************************************************************)
\* the longest list of search candidates
MaxCoins == 2

Str_btc == <<"b","t","c">>
Str_BTC == <<"B","T","C">>
Str_Sol == <<" ","S","o","l"," ">>
Str_xy == <<"x","y">>
Str_Xy == <<"X","y">>
Str_XY == <<"X","Y">>
Str_z == <<"z">>
Str_Name == <<"N","a","m","e">>

\* tickers a user can type: in the alias table (as typed, in capitals, padded), and not
Symbols == {Str_btc, Str_BTC, Str_Sol, Str_xy, Str_Xy}

SeqsUpTo(S, n) == UNION {[1..k -> S] : k \in 0..n}

Candidates ==
    [symbol : {J(Str_XY), J(Str_z), JNull, Absent}, id : {J("id1"), J("id2"), JNull}]

SearchBodies(n) ==
    {InvalidBody, NullBody, ArrayBody, EmptyBody}
    \cup {[kind |-> "object", coins |-> c] :
            c \in {Absent, JNull} \cup {J(l) : l \in SeqsUpTo(Candidates, n)}}

Responses(bodies) ==
    {NetworkError}
    \cup {Response(s, InvalidBody) : s \in {204, 500}}
    \cup {Response(200, b) : b \in bodies}

SearchResponses == Responses(SearchBodies(MaxCoins))
\* for the callers of the resolver: at most one candidate
SearchResponses1 == Responses(SearchBodies(1))

ObjectBody(fields) == [kind |-> "object"] @@ fields

Prices == {0, 10, 20}

SpotBodies ==
    {InvalidBody, NullBody, ArrayBody, EmptyBody}
    \cup {ObjectBody([entry |-> e]) :
            e \in {Absent, JNull} \cup {[usd |-> u] : u \in {Absent, JNull} \cup {J(p) : p \in Prices}}}
SpotResponses == Responses(SpotBodies)

HistoryBodies ==
    {InvalidBody, NullBody, ArrayBody, EmptyBody}
    \cup {ObjectBody([usd |-> u]) : u \in {Absent, JNull} \cup {J(p) : p \in Prices}}
HistoryResponses == Responses(HistoryBodies)

Mcaps == {4, 300}
MarketsBodies ==
    {InvalidBody, NullBody, EmptyBody, ObjectBody([first |-> JNull])}
    \cup {[kind |-> "array", first |-> f] :
            f \in {JNull} \cup {[market_cap |-> m] : m \in {Absent, JNull} \cup {J(c) : c \in Mcaps}}}
MarketsResponses == Responses(MarketsBodies)

Timestamp == [date |-> <<2021, 11, 10>>, time |-> <<14, 24>>]
MarketData ==
    [ath : {JNull, J(0), J(20)}, ath_date : {JNull, J(Timestamp)},
     current_price : {JNull, J(10)}, market_cap : {JNull, J(300)},
     change : {Absent, J(-7)}]
    \cup {[ath |-> Absent, ath_date |-> J(Timestamp), current_price |-> J(10),
           market_cap |-> J(300), change |-> Absent]}
DetailBodies ==
    {InvalidBody, NullBody, ArrayBody, EmptyBody}
    \cup {ObjectBody([name |-> n, md |-> md]) :
            n \in {Absent, JNull, J(<<>>), J(Str_Name)}, md \in {Absent} \cup MarketData}
DetailResponses == Responses(DetailBodies)
\* for get_token_name, which reads the name alone
NameResponses ==
    Responses({InvalidBody, NullBody, ArrayBody, EmptyBody}
              \cup {ObjectBody([name |-> n, md |-> Absent]) :
                      n \in {Absent, JNull, J(<<>>), J(Str_Name)}})

Dates == {<<2023, 1, 1>>, <<2024, 2, 29>>, <<2023, 2, 29>>, <<2023, 13, 1>>}

Args == {<<>>} \cup {<<s>> : s \in Symbols} \cup {<<Str_btc, Str_xy>>}

(***************************************************************************)
(* STORAGE (JSON)                                                          *)
(*                                                                         *)
(* positions.json is missing, holds something json.load rejects, or holds  *)
(* the dict last dumped: user key -> list of positions.  A dict is a       *)
(* function on its keys, {} the empty one.                                 *)
(***************************************************************************)
Missing == [kind |-> "missing", data |-> <<>>]
Corrupt == [kind |-> "corrupt", data |-> <<>>]
Stored(data) == [kind |-> "data", data |-> data]

\* readable: open() and the read succeed
load_all_positions(file, readable) ==
    IF file.kind = "missing" THEN <<>>
    ELSE IF ~readable \/ file.kind = "corrupt" THEN <<>>
    ELSE file.data

\* open(.., "w") truncates the file before json.dump writes it
SaveOutcomes == {"saved", "open failed", "write failed"}
save_all_positions(file, data, outcome) ==
    IF outcome = "saved" THEN Stored(data)
    ELSE IF outcome = "open failed" THEN file
    ELSE Corrupt

\* str(user_id) of the ids of the model
str(n) == ToString(n)

\* all_data.get(key, [])
positions_of(all_data, key) == IF key \in DOMAIN all_data THEN all_data[key] ELSE <<>>

\* add_user_position between its load and its save
add_user_position(all_data, user_id, symbol, amount, buy_price, now) ==
    LET key == str(user_id) IN
    dict_set(all_data, key,
             Append(positions_of(all_data, key),
                    [symbol |-> upper(symbol), amount |-> amount,
                     buy_price |-> buy_price, created_at |-> now]))

get_user_positions(file, readable, user_id) ==
    positions_of(load_all_positions(file, readable), str(user_id))

\* float() of an argument, for the arguments of the model: digits, or a word
\* that is no number
Digits == <<"0", "1", "2", "3", "4", "5", "6", "7", "8", "9">>
digit(c) == (CHOOSE i \in DOMAIN Digits : Digits[i] = c) - 1
RECURSIVE decimal(_)
decimal(s) == IF s = <<>> THEN 0
              ELSE 10 * decimal(SubSeq(s, 1, Len(s) - 1)) + digit(s[Len(s)])
float(s) ==
    IF s # <<>> /\ \A i \in DOMAIN s : \E d \in DOMAIN Digits : Digits[d] = s[i]
    THEN Some(decimal(s))
    ELSE None

(***************************************************************************)
(* The handlers are coroutines on one event loop: a handler that runs      *)
(* keeps the loop until it awaits or returns, and the handlers here await  *)
(* only update.message.reply_text.                                         *)
(***************************************************************************)
\* the handlers in flight at once
MaxHandlers == 2
Handlers == 1 .. MaxHandlers
Free == 0

\* as if the handlers awaited between loading and saving the store
AwaitsAt_loaded == {"loaded", "replying"}

\* as if the handlers awaited the answer of a price fetch
AwaitsAt_fetching == {"fetching", "replying"}

\* the places where a handler awaits
AwaitsAt == {"replying"}

Yield(h, pc) == IF pc \in AwaitsAt \/ pc = "done" THEN Free ELSE h

\* portfolio's locals; prices: how the price lookup of each position ended
NoPortfolio ==
    [positions |-> <<>>, idx |-> 1, total_initial |-> 0, total_current |-> 0,
     lines |-> <<>>, prices |-> <<>>, total_profit |-> 0, total_pct |-> num(0)]

\* whatifdate's locals: the time its price lookup read, the answers it got so
\* far, the cache as the lookup found it, the price fetch's answer, the result
NoWhatIf ==
    [now |-> 0, hsearch |-> NoCall, history |-> NoCall, psearch |-> NoCall,
     cache_seen |-> <<>>, fetched |-> FALSE, spot |-> NoCall, res |-> None]

IdleTask ==
    [pc |-> "idle", cmd |-> "none", user |-> None, args |-> <<>>,
     all_data |-> <<>>, seen |-> Missing, reply |-> "none", pf |-> NoPortfolio,
     wi |-> NoWhatIf, readable |-> TRUE, save |-> "none"]

(***************************************************************************)
(* State.                                                                  *)
(***************************************************************************)
VARIABLES
    clock,          \* time.time()
    PRICE_CACHE,
    MCAP_CACHE,
    last,           \* the last call made: the function, its arguments, how it ended
    ops,            \* the number of calls made so far
    positions_file, \* positions.json
    task,           \* the handlers in flight: where each is, and its locals
    running         \* the handler that holds the event loop, or Free

store == <<positions_file, task, running>>

vars == <<clock, PRICE_CACHE, MCAP_CACHE, last, ops, positions_file, task, running>>

Init ==
    /\ clock = 0
    /\ PRICE_CACHE = <<>>
    /\ MCAP_CACHE = <<>>
    /\ last = [fn |-> "none"]
    /\ ops = 0
    /\ positions_file = Missing
    /\ task = [h \in Handlers |-> IdleTask]
    /\ running = Free

(***************************************************************************)
(* The gateway-backed lookups that keep no state, each called with any     *)
(* arguments and any behaviour of the provider.  They read and leave no    *)
(* state, so one call per behaviour shows all they do.                     *)
(***************************************************************************)
Idle == last.fn = "none"

CallResolve ==
    \E symbol \in Symbols, search \in SearchResponses :
        /\ Idle
        /\ last' = [fn |-> "resolve_token_id", symbol |-> symbol, search |-> search,
                    end |-> resolve_token_id(symbol, search)]
        /\ UNCHANGED <<clock, PRICE_CACHE, MCAP_CACHE, ops, store>>

CallName ==
    \E symbol \in Symbols, search \in SearchResponses1, detail \in NameResponses :
        /\ Idle
        /\ last' = [fn |-> "get_token_name", symbol |-> symbol,
                    end |-> get_token_name(symbol, search, detail)]
        /\ UNCHANGED <<clock, PRICE_CACHE, MCAP_CACHE, ops, store>>

CallHistorical ==
    \E symbol \in Symbols, date_str \in Dates,
       search \in SearchResponses1, history \in HistoryResponses :
        /\ Idle
        /\ last' = [fn |-> "get_historical_price_usd", symbol |-> symbol,
                    date_str |-> date_str,
                    end |-> get_historical_price_usd(symbol, date_str, search, history)]
        /\ UNCHANGED <<clock, PRICE_CACHE, MCAP_CACHE, ops, store>>

CallAth ==
    \E args \in Args, search \in SearchResponses1, detail \in DetailResponses :
        /\ Idle
        /\ last' = [fn |-> "ath", args |-> args, detail |-> detail,
                    end |-> ath(args, search, detail)]
        /\ UNCHANGED <<clock, PRICE_CACHE, MCAP_CACHE, ops, store>>

NextGateway == CallResolve \/ CallName \/ CallHistorical \/ CallAth

SpecGateway == Init /\ [][NextGateway]_vars

(***************************************************************************)
(* The two cached lookups, called again and again while time passes.  A    *)
(* call reads the clock when it is entered; the HTTP calls it issues block *)
(* it for some time, so the clock may have moved when it returns.          *)
(***************************************************************************)
\* the calls made in one behaviour
MaxOps == 2

\* the instants the clock shows: with both TTLs less than, exactly and more than
\* a TTL apart
Times == {0, 20, 59, 60, 81}

CacheSymbols == {Str_btc, Str_BTC, Str_xy}

Hit(id) == ObjectBody([coins |-> J(<<[symbol |-> J(Str_XY), id |-> id]>>)])
SearchSample ==
    {NetworkError, Response(500, InvalidBody), Response(200, InvalidBody),
     Response(200, ObjectBody([coins |-> J(<<>>)])),
     Response(200, Hit(J("id1"))), Response(200, Hit(JNull)),
     Response(200, ObjectBody([coins |-> J(<<[symbol |-> JNull, id |-> J("id1")]>>)]))}

Spot(usd) == Response(200, ObjectBody([entry |-> [usd |-> usd]]))
SpotSample ==
    {NetworkError, Response(500, InvalidBody), Response(200, InvalidBody),
     Response(200, ObjectBody([entry |-> Absent])),
     Spot(JNull), Spot(J(10)), Spot(J(20))}

Markets(market_cap) == Response(200, [kind |-> "array", first |-> [market_cap |-> market_cap]])
MarketsSample ==
    {NetworkError, Response(500, InvalidBody), Response(200, InvalidBody),
     Response(200, EmptyBody), Markets(JNull), Markets(J(4)), Markets(J(300))}

\* The responses of the calls a lookup issues; a call that is not issued has none.
Count(calls, url) == Cardinality({i \in DOMAIN calls : calls[i] = url})
Issues(end, url) == \E i \in DOMAIN end.calls : end.calls[i] = url

SearchOutcomes(issued) == IF issued THEN SearchSample ELSE {NoCall}
SpotOutcomes(issued) == IF issued THEN SpotSample ELSE {NoCall}
MarketsOutcomes(issued) == IF issued THEN MarketsSample ELSE {NoCall}
Durations(end) == IF end.calls = <<>> THEN {clock} ELSE {t \in Times : t >= clock}

Tick ==
    /\ \E t \in Times : t > clock /\ clock' = t
    /\ UNCHANGED <<PRICE_CACHE, MCAP_CACHE, last, ops, store>>

CallPrice ==
    /\ ops < MaxOps
    /\ \E symbol \in CacheSymbols :
       \E search \in SearchOutcomes(Issues(
              get_current_price_usd(symbol, clock, PRICE_CACHE, NetworkError, NetworkError),
              "search")) :
       \E spot \in SpotOutcomes(Issues(
              get_current_price_usd(symbol, clock, PRICE_CACHE, search, NetworkError),
              "simple/price")) :
       LET q == get_current_price_usd(symbol, clock, PRICE_CACHE, search, spot) IN
       \E t \in Durations(q) :
          /\ PRICE_CACHE' = q.cache
          /\ clock' = t
          /\ last' = [fn |-> "get_current_price_usd", symbol |-> symbol, now |-> clock,
                      search |-> search, fetch |-> spot, end |-> q.end]
    /\ ops' = ops + 1
    /\ UNCHANGED <<MCAP_CACHE, store>>

CallMcap ==
    /\ ops < MaxOps
    /\ \E symbol \in CacheSymbols :
       \E search \in SearchOutcomes(Issues(
              get_token_market_cap(symbol, clock, MCAP_CACHE, NetworkError, NetworkError),
              "search")) :
       \E markets \in MarketsOutcomes(Issues(
              get_token_market_cap(symbol, clock, MCAP_CACHE, search, NetworkError),
              "markets")) :
       LET q == get_token_market_cap(symbol, clock, MCAP_CACHE, search, markets) IN
       \E t \in Durations(q) :
          /\ MCAP_CACHE' = q.cache
          /\ clock' = t
          /\ last' = [fn |-> "get_token_market_cap", symbol |-> symbol, now |-> clock,
                      search |-> search, fetch |-> markets, end |-> q.end]
    /\ ops' = ops + 1
    /\ UNCHANGED <<PRICE_CACHE, store>>

NextCache == Tick \/ CallPrice \/ CallMcap

SpecCache == Init /\ [][NextCache]_vars

(***************************************************************************)
(* calc_what_if_date, called with any arguments against any provider.  It  *)
(* reads and writes PRICE_CACHE through get_current_price_usd, so it may    *)
(* find the price that an earlier lookup cached.                           *)
(***************************************************************************)
UsdAmounts == {0, 100}

\* the answers the provider gives calc_what_if_date
WhatIfSearchSample ==
    {NetworkError, Response(200, Hit(J("id1"))),
     Response(200, ObjectBody([coins |-> J(<<[symbol |-> JNull, id |-> J("id1")]>>)]))}

HistorySample ==
    {NetworkError, Response(200, InvalidBody)}
    \cup {Response(200, ObjectBody([usd |-> u])) : u \in {JNull, J(0), J(10)}}

Named(name) == Response(200, ObjectBody([name |-> name, md |-> Absent]))
NameSample == {NetworkError, Named(J(Str_Name))}

WhatIfDates == {<<2023, 1, 1>>, <<2023, 2, 29>>}

WhatIfSearchOutcomes(issued) == IF issued THEN WhatIfSearchSample ELSE {NoCall}
HistoryOutcomes(issued) == IF issued THEN HistorySample ELSE {NoCall}
NameOutcomes(issued) == IF issued THEN NameSample ELSE {NoCall}

\* The calls calc_what_if_date issues, in its order: the historical lookup's,
\* then with a historical price the price lookup's, then with both prices and
\* the division done the name lookup's.
NotAsked == [out |-> "not asked"]

CallWhatIf ==
    /\ last.fn # "calc_what_if_date"
    /\ \E symbol \in {Str_btc, Str_xy}, usd_amount \in UsdAmounts, date_str \in WhatIfDates :
       \E hs \in WhatIfSearchOutcomes(Issues(
              get_historical_price_usd(symbol, date_str, NetworkError, NetworkError),
              "search")) :
       \E hi \in HistoryOutcomes(Issues(
              get_historical_price_usd(symbol, date_str, hs, NetworkError), "history")) :
       \E h \in {get_historical_price_usd(symbol, date_str, hs, hi)} :
       \E priced \in {h.out = "return" /\ h.val # None} :
       \E ps \in WhatIfSearchOutcomes(priced /\ Issues(
              get_current_price_usd(symbol, clock, PRICE_CACHE, NetworkError, NetworkError),
              "search")) :
       \E sp \in SpotOutcomes(priced /\ Issues(
              get_current_price_usd(symbol, clock, PRICE_CACHE, ps, NetworkError),
              "simple/price")) :
       \E q \in {IF priced
                 THEN get_current_price_usd(symbol, clock, PRICE_CACHE, ps, sp).end
                 ELSE NotAsked} :
       \E named \in {priced /\ q.out = "return" /\ q.val # None /\ h.val.val # 0} :
       \E ns \in WhatIfSearchOutcomes(named /\ Issues(
              get_token_name(symbol, NetworkError, NetworkError), "search")) :
       \E de \in NameOutcomes(named /\ Issues(
              get_token_name(symbol, ns, NetworkError), "coins")) :
       \E rs \in {[hsearch |-> hs, history |-> hi, psearch |-> ps, spot |-> sp,
                   nsearch |-> ns, detail |-> de]} :
       \E w \in {calc_what_if_date(symbol, usd_amount, date_str, clock, PRICE_CACHE, rs)} :
       \E t \in Durations(w) :
          /\ PRICE_CACHE' = w.cache
          /\ clock' = t
          /\ last' = [fn |-> "calc_what_if_date", symbol |-> symbol,
                      usd_amount |-> usd_amount, date_str |-> date_str, now |-> clock,
                      historical |-> h, current |-> q,
                      name |-> IF named THEN get_token_name(symbol, ns, de) ELSE NotAsked,
                      end |-> w.end]
    /\ ops' = ops + 1
    /\ UNCHANGED <<MCAP_CACHE, store>>

\* a price lookup before it, which may leave the price in the cache
WarmUp == last.fn = "none" /\ CallPrice

NextWhatIf == Tick \/ WarmUp \/ CallWhatIf

SpecWhatIf == Init /\ [][NextWhatIf]_vars

\* the cached lookups and the historical one, each with the answers it got
CallHistory ==
    /\ ops < MaxOps
    /\ \E symbol \in {Str_btc, Str_xy}, date_str \in WhatIfDates :
       \E search \in WhatIfSearchOutcomes(Issues(
              get_historical_price_usd(symbol, date_str, NetworkError, NetworkError),
              "search")) :
       \E history \in HistoryOutcomes(Issues(
              get_historical_price_usd(symbol, date_str, search, NetworkError),
              "history")) :
       \E end \in {get_historical_price_usd(symbol, date_str, search, history)} :
       \E t \in Durations(end) :
          /\ clock' = t
          /\ last' = [fn |-> "get_historical_price_usd", symbol |-> symbol,
                      date_str |-> date_str, search |-> search, fetch |-> history,
                      end |-> end]
    /\ ops' = ops + 1
    /\ UNCHANGED <<PRICE_CACHE, MCAP_CACHE, store>>

NextRequests == Tick \/ CallPrice \/ CallMcap \/ CallHistory

SpecRequests == Init /\ [][NextRequests]_vars

(***************************************************************************)
(* TELEGRAM COMMANDS that write the store: /addpos, /clear, /remove.       *)
(* Updates arrive at any time; each starts a handler, which runs when the  *)
(* event loop is free.                                                     *)
(***************************************************************************)
\* the updates received in one behaviour
MaxUpdates == 3

\* update.effective_user
Users == {None, Some(7), Some(8)}

\* context.args
Str_2 == <<"2">>
Str_5 == <<"5">>
Str_0 == <<"0">>
Str_10 == <<"1", "0">>
AddposArgs ==
    {<<Str_btc, Str_2, Str_5>>, <<Str_xy, Str_10, Str_0>>,
     <<Str_btc, Str_2>>, <<Str_btc, Str_z, Str_5>>}
RemoveArgs == {<<Str_btc>>, <<>>}

Receive(h, cmd, user, args) ==
    /\ ops < MaxUpdates
    /\ task[h].pc \in {"idle", "done"}
    /\ task' = [task EXCEPT ![h] = [IdleTask EXCEPT !.pc = "start", !.cmd = cmd,
                                                    !.user = user, !.args = args]]
    /\ ops' = ops + 1
    /\ UNCHANGED <<clock, PRICE_CACHE, MCAP_CACHE, last, positions_file, running>>

CanRun(h) == running \in {Free, h}

\* handler h goes on to pc with the locals t
Goes(h, pc, t) ==
    /\ task' = [task EXCEPT ![h] = [t EXCEPT !.pc = pc]]
    /\ running' = Yield(h, pc)

\* await update.message.reply_text(..)
Replies(h, reply) == Goes(h, "replying", [task[h] EXCEPT !.reply = reply])

ReadOutcomes == IF positions_file.kind = "data" THEN BOOLEAN ELSE {TRUE}

\* all_data = load_all_positions()
Loads(h) ==
    \E readable \in ReadOutcomes :
        Goes(h, "loaded",
             [task[h] EXCEPT !.all_data = load_all_positions(positions_file, readable),
                             !.seen = positions_file, !.readable = readable])

\* save_all_positions(data), then the reply
Saves(h, data, reply) ==
    \E outcome \in SaveOutcomes :
        /\ positions_file' = save_all_positions(positions_file, data, outcome)
        /\ Goes(h, "replying", [task[h] EXCEPT !.reply = reply, !.save = outcome])

addpos(h) ==
    LET t == task[h] IN
    /\ t.cmd = "addpos"
    /\ CanRun(h)
    /\ UNCHANGED <<clock, PRICE_CACHE, MCAP_CACHE, last, ops>>
    /\ \/ /\ t.pc = "start"
          /\ UNCHANGED positions_file
          /\ IF Len(t.args) # 3 THEN Replies(h, "usage")
             ELSE IF float(t.args[2]) = None \/ float(t.args[3]) = None
                  THEN Replies(h, "not numbers")
             ELSE IF t.user = None THEN Replies(h, "no user")
             ELSE Loads(h)
       \/ /\ t.pc = "loaded"
          /\ Saves(h, add_user_position(t.all_data, t.user.val, t.args[1],
                                        float(t.args[2]).val, float(t.args[3]).val,
                                        clock),
                   "saved")

clear(h) ==
    LET t == task[h]
        key == str(t.user.val)
    IN
    /\ t.cmd = "clear"
    /\ CanRun(h)
    /\ UNCHANGED <<clock, PRICE_CACHE, MCAP_CACHE, last, ops>>
    /\ \/ /\ t.pc = "start"
          /\ UNCHANGED positions_file
          /\ IF t.user = None THEN Replies(h, "no user") ELSE Loads(h)
       \/ /\ t.pc = "loaded"
          /\ IF key \in DOMAIN t.all_data /\ t.all_data[key] # <<>>
             THEN Saves(h, dict_set(t.all_data, key, <<>>), "cleared")
             ELSE Replies(h, "no positions") /\ UNCHANGED positions_file

remove(h) ==
    LET t == task[h]
        symbol == upper(t.args[1])
        key == str(t.user.val)
        positions == positions_of(t.all_data, key)
        new_positions == SelectSeq(positions, LAMBDA p : p.symbol # symbol)
    IN
    /\ t.cmd = "remove"
    /\ CanRun(h)
    /\ UNCHANGED <<clock, PRICE_CACHE, MCAP_CACHE, last, ops>>
    /\ \/ /\ t.pc = "start"
          /\ UNCHANGED positions_file
          /\ IF Len(t.args) # 1 THEN Replies(h, "usage")
             ELSE IF t.user = None THEN Replies(h, "no user")
             ELSE Loads(h)
       \/ /\ t.pc = "loaded"
          /\ IF Len(new_positions) = Len(positions)
             THEN Replies(h, "not found") /\ UNCHANGED positions_file
             ELSE Saves(h, dict_set(t.all_data, key, new_positions), "removed")

\* reply_text is through and the handler returns
Finish(h) ==
    /\ task[h].pc = "replying"
    /\ CanRun(h)
    /\ Goes(h, "done", task[h])
    /\ UNCHANGED <<clock, PRICE_CACHE, MCAP_CACHE, last, ops, positions_file>>

Mutate ==
    \E h \in Handlers, user \in Users :
        \/ \E args \in AddposArgs : Receive(h, "addpos", user, args)
        \/ Receive(h, "clear", user, <<>>)
        \/ \E args \in RemoveArgs : Receive(h, "remove", user, args)

NextStore ==
    \/ Mutate
    \/ \E h \in Handlers : addpos(h) \/ clear(h) \/ remove(h) \/ Finish(h)

SpecStore == Init /\ [][NextStore]_vars

(***************************************************************************)
(* TELEGRAM COMMANDS: /portfolio, on a store that /addpos filled.  The     *)
(* handler awaits nothing before its reply, so its loop over the positions *)
(* runs in one piece; here it is taken one position at a time.             *)
(***************************************************************************)
PortfolioSpotSample == {NetworkError, Spot(J(10)), Spot(J(20))}
PortfolioSearchOutcomes(issued) == IF issued THEN WhatIfSearchSample ELSE {NoCall}
PortfolioSpotOutcomes(issued) == IF issued THEN PortfolioSpotSample ELSE {NoCall}

\* one pass of the for loop, the lookup having ended with q
portfolio_line(pf, q) ==
    LET pos == pf.positions[pf.idx]
        amount == pos.amount
        buy_price == pos.buy_price
        next == [pf EXCEPT !.idx = pf.idx + 1, !.prices = Append(pf.prices, q)]
    IN
    IF q.out = "raise" \/ q.val = None THEN next
    ELSE
    LET current_price == q.val.val
        initial_value == amount * buy_price
        current_value == amount * current_price
        profit_abs == current_value - initial_value
        profit_pct == IF initial_value # 0
                      THEN mul(div(num(profit_abs), num(initial_value)), num(100))
                      ELSE num(0)
    IN [next EXCEPT !.total_initial = pf.total_initial + initial_value,
                    !.total_current = pf.total_current + current_value,
                    !.lines = Append(pf.lines,
                                     [idx |-> pf.idx, sym |-> pos.symbol,
                                      amount |-> amount, buy_price |-> buy_price,
                                      current_price |-> current_price,
                                      current_value |-> current_value,
                                      profit_abs |-> profit_abs,
                                      profit_pct |-> profit_pct])]

\* after the loop
portfolio_summary(pf) ==
    LET total_profit == pf.total_current - pf.total_initial IN
    [pf EXCEPT !.total_profit = total_profit,
               !.total_pct = IF pf.total_initial # 0
                             THEN mul(div(num(total_profit), num(pf.total_initial)),
                                      num(100))
                             ELSE num(0)]

portfolio(h) ==
    LET t == task[h] IN
    /\ t.cmd = "portfolio"
    /\ CanRun(h)
    /\ UNCHANGED <<MCAP_CACHE, last, ops, positions_file>>
    /\ \/ /\ t.pc = "start"
          /\ UNCHANGED <<clock, PRICE_CACHE>>
          /\ IF t.user = None THEN Replies(h, "no user")
             ELSE \E readable \in ReadOutcomes :
                  LET positions == get_user_positions(positions_file, readable, t.user.val)
                  IN
                  IF positions = <<>> THEN Replies(h, "no positions")
                  ELSE Goes(h, "pricing",
                            [t EXCEPT !.pf = [NoPortfolio EXCEPT !.positions = positions],
                                      !.seen = positions_file])
       \/ /\ t.pc = "pricing"
          /\ t.pf.idx <= Len(t.pf.positions)
          /\ \E sym \in {t.pf.positions[t.pf.idx].symbol} :
             \E search \in PortfolioSearchOutcomes(Issues(
                    get_current_price_usd(sym, clock, PRICE_CACHE, NetworkError, NetworkError),
                    "search")) :
             \E spot \in PortfolioSpotOutcomes(Issues(
                    get_current_price_usd(sym, clock, PRICE_CACHE, search, NetworkError),
                    "simple/price")) :
             \E q \in {get_current_price_usd(sym, clock, PRICE_CACHE, search, spot)} :
             \E now \in Durations(q) :
                /\ PRICE_CACHE' = q.cache
                /\ clock' = now
                /\ IF q.out = "raise"
                   THEN Goes(h, "done", [t EXCEPT !.pf = portfolio_line(t.pf, q.end),
                                                  !.reply = "raised"])
                   ELSE Goes(h, "pricing", [t EXCEPT !.pf = portfolio_line(t.pf, q.end)])
       \/ /\ t.pc = "pricing"
          /\ t.pf.idx > Len(t.pf.positions)
          /\ UNCHANGED <<clock, PRICE_CACHE>>
          /\ Goes(h, "replying", [t EXCEPT !.pf = portfolio_summary(t.pf),
                                           !.reply = "summary"])

Track ==
    \E h \in Handlers, user \in Users :
        \/ \E args \in AddposArgs : Receive(h, "addpos", user, args)
        \/ Receive(h, "portfolio", user, <<>>)

NextPortfolio ==
    \/ Track
    \/ \E h \in Handlers : addpos(h) \/ portfolio(h) \/ Finish(h)

SpecPortfolio == Init /\ [][NextPortfolio]_vars

(***************************************************************************)
(* TELEGRAM COMMANDS: /whatifdate.  Its lookups are blocking calls: the    *)
(* handler keeps the event loop while a request of its is out.  The price  *)
(* fetch is taken in two steps, the request going out and its answer       *)
(* coming in.                                                              *)
(***************************************************************************)
Str_date == <<2023, 1, 1>>
WhatIfArgs ==
    {<<Str_btc, Str_10, Str_date>>, <<Str_xy, Str_10, Str_date>>,
     <<Str_btc, Str_z, Str_date>>, <<Str_btc, Str_10, <<2023, 2, 29>>>>, <<Str_btc>>}

LookupSpotSample == {NetworkError, Spot(J(10)), Spot(J(20))}
LookupSpotOutcomes(issued) == IF issued THEN LookupSpotSample ELSE {NoCall}
LookupMarketsSample == {NetworkError, Markets(J(300))}
LookupMarketsOutcomes(issued) == IF issued THEN LookupMarketsSample ELSE {NoCall}
Later(issued, from) == IF issued THEN {t \in Times : t >= from} ELSE {from}

\* calc_what_if_date from the answer of its price fetch on (or from its price
\* lookup, if that fetches nothing), then the market cap and the reply
WhatIfRest(h, now, hs, hi, ps, sp) ==
    LET t == task[h]
        symbol == t.args[1]
        usd_amount == float(t.args[2]).val
        date_str == t.args[3]
    IN
    \E hist \in {get_historical_price_usd(symbol, date_str, hs, hi)} :
    \E priced \in {hist.out = "return" /\ hist.val # None} :
    \E q \in {IF priced THEN get_current_price_usd(symbol, now, PRICE_CACHE, ps, sp).end
              ELSE NotAsked} :
    \E named \in {priced /\ q.out = "return" /\ q.val # None /\ hist.val.val # 0} :
    \E ns \in WhatIfSearchOutcomes(named /\ Issues(
           get_token_name(symbol, NetworkError, NetworkError), "search")) :
    \E de \in NameOutcomes(named /\ Issues(
           get_token_name(symbol, ns, NetworkError), "coins")) :
    \E w \in {calc_what_if_date(symbol, usd_amount, date_str, now, PRICE_CACHE,
                                [hsearch |-> hs, history |-> hi, psearch |-> ps,
                                 spot |-> sp, nsearch |-> ns, detail |-> de])} :
    \E wi \in {[NoWhatIf EXCEPT !.now = now, !.fetched = t.wi.fetched, !.spot = sp]} :
       /\ PRICE_CACHE' = w.cache
       /\ IF w.out = "raise"
          THEN /\ Goes(h, "done", [t EXCEPT !.reply = "raised", !.wi = wi])
               /\ clock' \in Later(TRUE, clock)
               /\ UNCHANGED MCAP_CACHE
          ELSE IF w.end.val = None
          THEN /\ Replies(h, "could not fetch")
               /\ clock' \in Later(w.calls # <<>> \/ sp # NoCall, clock)
               /\ UNCHANGED MCAP_CACHE
          ELSE
          \E res \in {w.end.val.val} :
          \E at \in Later(w.calls # <<>> \/ sp # NoCall, clock) :
          \E ms \in WhatIfSearchOutcomes(Issues(
                 get_token_market_cap(res.symbol, at, MCAP_CACHE, NetworkError, NetworkError),
                 "search")) :
          \E mk \in LookupMarketsOutcomes(Issues(
                 get_token_market_cap(res.symbol, at, MCAP_CACHE, ms, NetworkError),
                 "markets")) :
          \E m \in {get_token_market_cap(res.symbol, at, MCAP_CACHE, ms, mk)} :
             /\ MCAP_CACHE' = m.cache
             /\ clock' = at
             /\ IF m.out = "raise"
                THEN Goes(h, "done", [t EXCEPT !.reply = "raised", !.wi = wi])
                ELSE Goes(h, "replying",
                          [t EXCEPT !.reply = "result",
                                    !.wi = [wi EXCEPT !.res =
                                               Some([res |-> res, mcap |-> m.end.val,
                                                     d |-> degen_score(m.end.val, None)])]])

\* calc_what_if_date up to its price fetch
WhatIfEnter(h) ==
    LET t == task[h]
        symbol == t.args[1]
        date_str == t.args[3]
    IN
    \E hs \in WhatIfSearchOutcomes(Issues(
           get_historical_price_usd(symbol, date_str, NetworkError, NetworkError),
           "search")) :
    \E hi \in HistoryOutcomes(Issues(
           get_historical_price_usd(symbol, date_str, hs, NetworkError), "history")) :
    \E hist \in {get_historical_price_usd(symbol, date_str, hs, hi)} :
    \E priced \in {hist.out = "return" /\ hist.val # None} :
    \E at \in Later(priced /\ hist.calls # <<>>, clock) :
    \E ps \in WhatIfSearchOutcomes(priced /\ Issues(
           get_current_price_usd(symbol, at, PRICE_CACHE, NetworkError, NetworkError),
           "search")) :
    IF priced /\ Issues(get_current_price_usd(symbol, at, PRICE_CACHE, ps, NetworkError),
                        "simple/price")
    THEN /\ Goes(h, "fetching",
                 [t EXCEPT !.wi = [NoWhatIf EXCEPT !.now = at, !.hsearch = hs,
                                                   !.history = hi, !.psearch = ps,
                                                   !.cache_seen = PRICE_CACHE,
                                                   !.fetched = TRUE]])
         /\ clock' = at
         /\ UNCHANGED <<PRICE_CACHE, MCAP_CACHE>>
    ELSE /\ clock = at
         /\ WhatIfRest(h, at, hs, hi, ps, NoCall)

whatifdate(h) ==
    LET t == task[h] IN
    /\ t.cmd = "whatifdate"
    /\ CanRun(h)
    /\ UNCHANGED <<last, ops, positions_file>>
    /\ \/ /\ t.pc = "start"
          /\ IF Len(t.args) # 3
             THEN Replies(h, "usage") /\ UNCHANGED <<clock, PRICE_CACHE, MCAP_CACHE>>
             ELSE IF float(t.args[2]) = None
             THEN Replies(h, "not a number") /\ UNCHANGED <<clock, PRICE_CACHE, MCAP_CACHE>>
             ELSE IF strptime(t.args[3]) = None
             THEN Replies(h, "bad date") /\ UNCHANGED <<clock, PRICE_CACHE, MCAP_CACHE>>
             ELSE WhatIfEnter(h)
       \/ /\ t.pc = "fetching"
          /\ \E sp \in LookupSpotSample :
                WhatIfRest(h, t.wi.now, t.wi.hsearch, t.wi.history, t.wi.psearch, sp)

Ask ==
    /\ ops < MaxOps
    /\ \E h \in Handlers, args \in WhatIfArgs : Receive(h, "whatifdate", None, args)

NextLookups ==
    \/ Ask
    \/ Tick
    \/ \E h \in Handlers : whatifdate(h) \/ Finish(h)

SpecLookups == Init /\ [][NextLookups]_vars

(***************************************************************************)
(* degen_score, called with any market cap (in millions of USD) and any    *)
(* 24h change (in percent), known or not.                                  *)
(***************************************************************************)
DegenMcaps == {0, 4, 5, 49, 50, 199, 200, 999, 1000, 9999, 10000, 20000}
DegenChanges == {0, 1, 2, 4, 5, 9, 10, 19, 20, 25}
Known(S) == {None} \cup {Some(x) : x \in S}

CallDegen ==
    \E mcap \in Known(DegenMcaps),
       change_24h \in Known(DegenChanges \cup {-c : c \in DegenChanges}) :
        /\ Idle
        /\ last' = [fn |-> "degen_score", mcap |-> mcap, change_24h |-> change_24h,
                    end |-> degen_score(mcap, change_24h)]
        /\ UNCHANGED <<clock, PRICE_CACHE, MCAP_CACHE, ops, store>>

NextDegen == CallDegen

SpecDegen == Init /\ [][NextDegen]_vars

(***************************************************************************)
(* Properties of the resolver and of the gateway-backed lookups.           *)
(***************************************************************************)
InAliasTable(symbol) == \E m \in CG_MAPPING : m[1] = strip(lower(symbol))

\* C7: every gateway-backed lookup (search, historical price, display name, ATH
\* detail) ends by returning, a failed or malformed response as None / a "could
\* not" reply, and never raises a fault to its caller.
C7_NeverRaises ==
    last.fn \in {"resolve_token_id", "get_token_name", "get_historical_price_usd", "ath"}
        => last.end.out = "return"

\* C8: a symbol whose lowercase, trimmed form is a key of the alias table resolves
\* to the mapped identifier and issues no search call, whatever the provider does.
C8_AliasNeverSearches ==
    (last.fn = "resolve_token_id" /\ InAliasTable(last.symbol))
        => \E m \in CG_MAPPING :
              /\ m[1] = strip(lower(last.symbol))
              /\ last.end.out = "return"
              /\ last.end.val = Some(m[2])
              /\ last.end.calls = <<>>

\* C8 witness: a padded, capitalised alias resolved while the provider is unreachable.
C8_Witness ==
    /\ last.fn = "resolve_token_id"
    /\ last.symbol = Str_Sol
    /\ last.search = NetworkError
    /\ last.end.val = Some("solana")

\* the candidates the provider returned: none when the search failed
SearchCandidates(search) ==
    IF /\ search.kind = "response"
       /\ search.status = 200
       /\ search.body.kind = "object"
       /\ IsJ(search.body.coins)
    THEN search.body.coins.json
    ELSE <<>>

ExactMatch(c, symbol) == IsJ(c.symbol) /\ lower(c.symbol.json) = strip(lower(symbol))

\* C9: for a symbol not in the alias table the resolver returns NotFound when the
\* search fails or has no candidates, else the id of the first candidate whose
\* symbol equals the query case-insensitively, else the id of the first candidate.
C9_ResolverChoice ==
    (last.fn = "resolve_token_id" /\ ~InAliasTable(last.symbol))
        => LET cs == SearchCandidates(last.search)
               exact == {i \in DOMAIN cs : ExactMatch(cs[i], last.symbol)}
               first == CHOOSE i \in exact : \A j \in exact : i <= j
           IN /\ last.end.out = "return"
              /\ last.end.val = IF cs = <<>> THEN None
                                ELSE IF exact # {} THEN py_get(cs[first].id)
                                ELSE py_get(cs[1].id)

(***************************************************************************)
(* Properties of the quote caches.  They are about one call: the step that *)
(* makes it reads the cache before it (unprimed) and leaves the call in    *)
(* last' and the cache after it (primed).                                  *)
(***************************************************************************)
IsCall == ops' # ops
PriceFn == "get_current_price_usd"
McapFn == "get_token_market_cap"

TTLOf(fn) == IF fn = PriceFn THEN PRICE_TTL ELSE MCAP_TTL
FetchOf(fn) == IF fn = PriceFn THEN "simple/price" ELSE "markets"
ValueOf(fn, entry) == IF fn = PriceFn THEN entry.price ELSE entry.mcap

\* the entries a call for this symbol finds: the keys equal to it but for case
Entries(cache, symbol) == {k \in DOMAIN cache : lower(k) = lower(symbol)}

\* the symbol resolves to an identifier
Resolves(symbol, search) ==
    \/ InAliasTable(symbol)
    \/ /\ search.kind # "nocall"
       /\ LET t == resolve_token_id(symbol, search) IN t.out = "return" /\ ~falsy(t.val)

\* the provider's answer holds the value asked for
FetchSucceeds(fn, fetch) ==
    /\ fetch.kind = "response"
    /\ fetch.status = 200
    /\ IF fn = PriceFn
       THEN /\ fetch.body.kind = "object"
            /\ fetch.body.entry \notin {Absent, JNull}
            /\ IsJ(fetch.body.entry.usd)
       ELSE /\ fetch.body.kind = "array"
            /\ fetch.body.first # JNull
            /\ IsJ(fetch.body.first.market_cap)

RefreshFails(l) == ~Resolves(l.symbol, l.search) \/ ~FetchSucceeds(l.fn, l.fetch)

\* what C1 says of a call l that found cache before it, with `fetches` the number
\* of fetches a call that finds its entry expired is to issue
C1_Step(l, cache, fetches) ==
    \A k \in Entries(cache, l.symbol) :
        IF l.now - cache[k].ts < TTLOf(l.fn)
        THEN l.end = Return(Some(ValueOf(l.fn, cache[k])), <<>>)
        ELSE Count(l.end.calls, FetchOf(l.fn)) = fetches

\* C1 as stated: within the TTL of the stored entry a lookup of the same symbol
\* (whatever its case) returns the stored value with no search and no fetch; a
\* lookup at or after the TTL issues exactly one fetch of that kind.
C1_ExactlyOneFetch ==
    [][IsCall => C1_Step(last', IF last'.fn = PriceFn THEN PRICE_CACHE ELSE MCAP_CACHE, 1)]_vars

\* C1 amended: a lookup at or after the TTL issues exactly one fetch of that kind
\* when the symbol resolves to an identifier, and none when it does not.
C1_CachedWithinTTL ==
    [][IsCall => C1_Step(last', IF last'.fn = PriceFn THEN PRICE_CACHE ELSE MCAP_CACHE,
                         IF Resolves(last'.symbol, last'.search) THEN 1 ELSE 0)]_vars

\* C1 witness: BTC asked for one time unit after the entry was stored, served
\* with the stored value and no call.
C1_Witness ==
    /\ last.fn = PriceFn
    /\ last.symbol = Str_BTC
    /\ Str_BTC \in DOMAIN PRICE_CACHE
    /\ last.now - PRICE_CACHE[Str_BTC].ts = 1
    /\ last.end = Return(Some(PRICE_CACHE[Str_BTC].price), <<>>)

\* a call l that found an entry past its TTL and could not refresh it
StaleAndFailed(l, cache, k) ==
    /\ k \in Entries(cache, l.symbol)
    /\ l.now - cache[k].ts >= TTLOf(l.fn)
    /\ RefreshFails(l)

\* C2 as stated: a lookup that finds an entry past its TTL and fails to refresh it
\* returns the old value; it returns Unavailable only when there was no entry.
C2_ServesStale ==
    [][IsCall =>
        LET l == last'
            cache == IF l.fn = PriceFn THEN PRICE_CACHE ELSE MCAP_CACHE
        IN /\ \A k \in DOMAIN cache :
                StaleAndFailed(l, cache, k)
                    => l.end.out = "return" /\ l.end.val = Some(ValueOf(l.fn, cache[k]))
           /\ (l.end.out = "return" /\ l.end.val = None) => Entries(cache, l.symbol) = {}
      ]_vars

\* C2 amended: a lookup that finds an entry past its TTL and fails to refresh it
\* hands its caller no value (None, or the resolver's fault), whether or not an
\* entry existed; the stale entry stays in the cache but is not served.
C2_StaleNotServed ==
    [][IsCall =>
        LET l == last'
            cache == IF l.fn = PriceFn THEN PRICE_CACHE ELSE MCAP_CACHE
            after == IF l.fn = PriceFn THEN PRICE_CACHE' ELSE MCAP_CACHE'
        IN \A k \in DOMAIN cache :
                StaleAndFailed(l, cache, k)
                    => /\ l.end.out = "raise" \/ l.end.val = None
                       /\ k \in DOMAIN after /\ after[k] = cache[k]
      ]_vars

\* C2 witness: XY has an entry, its refresh failed in the transport, the caller
\* got None.
C2_Witness ==
    /\ last.fn = PriceFn
    /\ last.symbol = Str_xy
    /\ Str_XY \in DOMAIN PRICE_CACHE
    /\ last.now - PRICE_CACHE[Str_XY].ts >= PRICE_TTL
    /\ last.fetch = NetworkError
    /\ last.end = Return(None, <<"search", "simple/price">>)

\* a lookup that got its caller no value
LookupFailed(l) == l.end.out = "raise" \/ l.end.val = None

\* C3: a price or market-cap lookup that fails at any stage leaves both caches as
\* they were: no entry evicted, overwritten or re-timestamped.
C3_FailureLeavesCaches ==
    [][(IsCall /\ LookupFailed(last'))
          => PRICE_CACHE' = PRICE_CACHE /\ MCAP_CACHE' = MCAP_CACHE]_vars

\* C3 witness: a market-cap lookup failed on a null field while the cache held
\* an entry for its symbol.
C3_Witness ==
    /\ last.fn = McapFn
    /\ last.fetch = Markets(JNull)
    /\ last.end.val = None
    /\ upper(last.symbol) \in DOMAIN MCAP_CACHE

(***************************************************************************)
(* calc_what_if_date                                                       *)
(***************************************************************************)
IsWhatIf == last.fn = "calc_what_if_date"

\* a lookup that handed back a price
Available(lookup) == lookup.out = "return" /\ lookup.val # None

\* C5: calc_what_if_date returns None exactly when the historical or the current
\* price is unavailable; otherwise its result has tokens = usd_amount /
\* historical price, current_value = tokens * current price, initial_value =
\* usd_amount, profit_abs = current_value - usd_amount and profit_pct =
\* profit_abs / usd_amount * 100, 0 when usd_amount is 0; with prices 10 and 20
\* and 100 USD these are 10, 200, 100 and 100.
C5_WhatIfResult ==
    IsWhatIf =>
        LET both == Available(last.historical) /\ Available(last.current)
            end == last.end
        IN
        /\ (end.out = "return" /\ end.val = None) <=> ~both
        /\ both =>
            /\ end.out = "return"
            /\ LET r == end.val.val
                   usd == num(last.usd_amount)
               IN
               /\ mul(r.tokens, num(last.historical.val.val)) = usd
               /\ r.current_value = mul(r.tokens, num(last.current.val.val))
               /\ r.initial_value = last.usd_amount
               /\ r.profit_abs = sub(r.current_value, usd)
               /\ IF last.usd_amount = 0
                  THEN r.profit_pct = num(0)
                  ELSE mul(r.profit_pct, usd) = mul(r.profit_abs, num(100))
               /\ (last.historical.val.val = 10 /\ last.current.val.val = 20
                   /\ last.usd_amount = 100)
                  => /\ r.tokens = num(10)
                     /\ r.current_value = num(200)
                     /\ r.profit_abs = num(100)
                     /\ r.profit_pct = num(100)

\* C6: whatever the inputs and the provider's answers, a historical price of 0
\* among them, calc_what_if_date ends in a result or in None, never in an
\* exception.
C6_NeverRaises == IsWhatIf => last.end.out = "return"

(***************************************************************************)
(* The position store under handlers in flight together.                   *)
(***************************************************************************)
Mutators == {"addpos", "clear", "remove"}

\* C10 as stated: the store is not updated atomically; while one mutating
\* handler is between its load and its save, another one that is about to start
\* can load the store as well (and the later save then drops the earlier one).
C10_BothLoadBeforeSave ==
    \A h, g \in Handlers :
        (/\ h # g
         /\ task[h].pc = "loaded"
         /\ task[g].pc = "start"
         /\ task[g].cmd \in Mutators)
        => ENABLED (addpos(g) \/ clear(g) \/ remove(g))

\* C10 as the code has it: a mutating handler loads, changes and saves the store
\* without awaiting, so while it is between load and save it holds the event
\* loop, no other handler has loaded, and the file is still what it loaded from:
\* every save builds on the save before it.
C10_LoadToSaveUninterrupted ==
    \A h \in Handlers :
        task[h].pc = "loaded"
        => /\ running = h
           /\ positions_file = task[h].seen
           /\ \A g \in Handlers \ {h} : task[g].pc # "loaded"

\* C10 witness: two handlers in flight together, one awaiting its reply after
\* it saved a position, the other between load and save with that position in
\* what it loaded.
C10_Witness ==
    \E h, g \in Handlers :
        /\ h # g
        /\ task[g].cmd = "addpos" /\ task[g].pc = "replying" /\ task[g].reply = "saved"
        /\ task[h].cmd = "addpos" /\ task[h].pc = "loaded"
        /\ positions_file.kind = "data"
        /\ task[h].all_data = positions_file.data
        /\ str(task[g].user.val) \in DOMAIN task[h].all_data

(***************************************************************************)
(* /portfolio                                                              *)
(***************************************************************************)
Priced(pf) == {i \in DOMAIN pf.prices : Available(pf.prices[i])}

RECURSIVE SumOver(_, _, _)
SumOver(I, pf, price) ==
    IF I = {} THEN 0
    ELSE LET i == CHOOSE j \in I : TRUE IN
         pf.positions[i].amount
            * (IF price = "buy" THEN pf.positions[i].buy_price ELSE pf.prices[i].val.val)
         + SumOver(I \ {i}, pf, price)

\* C4: /portfolio on a non-empty list of positions answers with a summary,
\* whatever the price lookups did: one line, in stored order, for exactly the
\* positions whose lookup gave a price, totals that are the sums of
\* amount * buy_price and amount * current price over those positions, a total
\* pct of 0 when the total initial value is 0; and its loop leaves the store as
\* it was.
C4_PortfolioSummary ==
    \A h \in Handlers :
        LET t == task[h]
            pf == t.pf
        IN
        /\ (t.cmd = "portfolio" /\ t.pc = "pricing") => positions_file = t.seen
        /\ (t.cmd = "portfolio" /\ t.pc \in {"replying", "done"} /\ pf.positions # <<>>)
           => /\ t.reply = "summary"
              /\ Len(pf.prices) = Len(pf.positions)
              /\ Len(pf.lines) = Cardinality(Priced(pf))
              /\ \A k \in DOMAIN pf.lines :
                    /\ pf.lines[k].idx \in Priced(pf)
                    /\ pf.lines[k].sym = pf.positions[pf.lines[k].idx].symbol
                    /\ \A l \in DOMAIN pf.lines : k < l => pf.lines[k].idx < pf.lines[l].idx
              /\ pf.total_initial = SumOver(Priced(pf), pf, "buy")
              /\ pf.total_current = SumOver(Priced(pf), pf, "current")
              /\ pf.total_initial = 0 => pf.total_pct = num(0)

(***************************************************************************)
(* Lookups of handlers in flight together.                                 *)
(***************************************************************************)
\* C11 as stated: lookups of two requests run concurrently; while the price
\* fetch of one is in flight, the lookup of another request that is about to
\* start can run as well (and miss the cache and fetch).
C11_BothFetchTogether ==
    \A h, g \in Handlers :
        (/\ h # g
         /\ task[h].pc = "fetching"
         /\ task[g].pc = "start"
         /\ task[g].cmd = "whatifdate")
        => ENABLED whatifdate(g)

\* C11 as the code has it: a handler whose price fetch is in flight holds the
\* event loop, so no other lookup is in flight and the cache stays as the lookup
\* found it; the price cache changes only in the step that takes in the answer
\* of a fetch, only for an answer with a price, and the entry is then that
\* price with the time the lookup read when it was entered.
C11_OneLookupInFlight ==
    [][/\ \A h \in Handlers :
             task'[h].pc = "fetching"
             => /\ running' = h
                /\ PRICE_CACHE' = task'[h].wi.cache_seen
                /\ \A g \in Handlers \ {h} : task'[g].pc # "fetching"
       /\ PRICE_CACHE' # PRICE_CACHE
          => \E h \in Handlers :
                /\ task[h].pc = "fetching"
                /\ task'[h].pc # "fetching"
                /\ task'[h].wi.spot \in {Spot(J(10)), Spot(J(20))}
                /\ PRICE_CACHE' = dict_set(PRICE_CACHE, upper(task[h].args[1]),
                                           [price |-> task'[h].wi.spot.body.entry.usd.json,
                                            ts |-> task[h].wi.now])
      ]_vars

\* C11 witness: two requests for one symbol in flight together; the first fetched
\* the price, wrote the entry and awaits its reply, the second missed the cache
\* all the same and its fetch is in flight.
C11_Witness ==
    \E h, g \in Handlers :
        /\ h # g
        /\ task[g].pc = "replying" /\ task[g].reply = "result" /\ task[g].wi.fetched
        /\ task[h].pc = "fetching"
        /\ task[h].args[1] = task[g].args[1]
        /\ upper(task[h].args[1]) \in DOMAIN PRICE_CACHE

(***************************************************************************)
(* What /addpos, /remove and /clear do to the store.                       *)
(***************************************************************************)
\* the positions the file holds
Content(file) == IF file.kind = "data" THEN file.data ELSE <<>>

OthersUnchanged(before, after, key) ==
    \A k \in (DOMAIN before \cup DOMAIN after) \ {key} :
        positions_of(after, k) = positions_of(before, k)

\* the step of handler h from its load on: the change, the save, the reply
Changes(h, cmd) ==
    task[h].cmd = cmd /\ task[h].pc = "loaded" /\ task'[h].pc # "loaded"

\* what add_user_position is to do to the store
AddEffect(h) ==
    LET key == str(task[h].user.val)
        before == Content(positions_file)
        after == Content(positions_file')
        had == positions_of(before, key)
        has == positions_of(after, key)
    IN
    /\ Len(has) = Len(had) + 1
    /\ SubSeq(has, 1, Len(had)) = had
    /\ has[Len(has)].symbol = upper(task[h].args[1])
    /\ has[Len(has)].amount = decimal(task[h].args[2])
    /\ has[Len(has)].buy_price = decimal(task[h].args[3])
    /\ OthersUnchanged(before, after, key)

\* C12: add_user_position for account u appends exactly one record, with the
\* upper-cased symbol, the amount and the buy price, at the end of u's list, also
\* when u holds the symbol already; the records u had and the lists of all other
\* accounts stay as they were.
C12_AddAppendsOne == [][\A h \in Handlers : Changes(h, "addpos") => AddEffect(h)]_vars

\* what remove is to do to the store and to report
RemoveEffect(h) ==
    LET key == str(task[h].user.val)
        S == upper(task[h].args[1])
        before == Content(positions_file)
        after == Content(positions_file')
        had == positions_of(before, key)
        has == positions_of(after, key)
    IN
    /\ has = SelectSeq(had, LAMBDA p : p.symbol # S)
    /\ OthersUnchanged(before, after, key)
    /\ (\A i \in DOMAIN had : had[i].symbol # S)
       => /\ task'[h].save = "none"
          /\ positions_file' = positions_file
          /\ task'[h].reply = "not found"

\* C13: remove for account u and symbol S deletes all positions of u whose
\* stored symbol is S upper-cased, keeps u's other positions in their order and
\* leaves the other accounts' lists alone; with no position of u matching, the
\* store is not written and "not found" is reported.
C13_RemoveAllMatching == [][\A h \in Handlers : Changes(h, "remove") => RemoveEffect(h)]_vars

\* what clear is to do to the store
ClearEffect(h) ==
    LET key == str(task[h].user.val)
        before == Content(positions_file)
        after == Content(positions_file')
    IN
    /\ positions_of(after, key) = <<>>
    /\ OthersUnchanged(before, after, key)
    /\ positions_of(before, key) = <<>>
       => task'[h].save = "none" /\ positions_file' = positions_file

\* C14: clear for account u leaves u with no positions and the other accounts'
\* lists as they were; when u has no stored positions the store is not written.
C14_ClearEmpties == [][\A h \in Handlers : Changes(h, "clear") => ClearEffect(h)]_vars

\* C19: whatever the store held and however reading it went (file missing,
\* unreadable, corrupt), every position stored before add_user_position is
\* stored after it.
C19_AddKeepsAll ==
    [][\A h \in Handlers :
          Changes(h, "addpos")
          => LET before == Content(positions_file)
                 after == Content(positions_file')
             IN
             \A k \in DOMAIN before :
                 /\ Len(positions_of(after, k)) >= Len(before[k])
                 /\ SubSeq(positions_of(after, k), 1, Len(before[k])) = before[k]
      ]_vars

\* C20: when addpos, remove or clear reports success, the save went through and
\* the change is in the file: the new position at the end of the user's list, no
\* position of the user in the removed symbol, no position of the user.
C20_SuccessIsPersisted ==
    [][\A h \in Handlers :
          (\E cmd \in Mutators : Changes(h, cmd))
          /\ task'[h].reply \in {"saved", "removed", "cleared"}
          => LET has == positions_of(Content(positions_file'), str(task[h].user.val)) IN
             /\ task'[h].save = "saved"
             /\ positions_file'.kind = "data"
             /\ task[h].cmd = "addpos"
                => /\ has # <<>>
                   /\ has[Len(has)].symbol = upper(task[h].args[1])
                   /\ has[Len(has)].amount = decimal(task[h].args[2])
                   /\ has[Len(has)].buy_price = decimal(task[h].args[3])
             /\ task[h].cmd = "remove"
                => \A i \in DOMAIN has : has[i].symbol # upper(task[h].args[1])
             /\ task[h].cmd = "clear" => has = <<>>
      ]_vars

(***************************************************************************)
(* degen_score                                                             *)
(***************************************************************************)
IsDegen == last.fn = "degen_score"

\* |change|, None for an unknown change
Magnitude(change) == IF change = None THEN None ELSE Some(abs(change.val))

\* C15: the score does not fall when the market cap falls with the change fixed,
\* does not fall when |change| grows with the market cap fixed, and a score that
\* is not null lies in [1, 10] (10 to 100 tenths).
C15_MonotoneAndBounded ==
    (IsDegen /\ last.mcap # None)
    => /\ last.end # None
       /\ last.end.val.score >= 10 /\ last.end.val.score <= 100
       /\ \A m2 \in DegenMcaps :
             m2 <= last.mcap.val
             => degen_score(Some(m2), last.change_24h).val.score >= last.end.val.score
       /\ last.change_24h # None
          => \A c2 \in DegenChanges \cup {-c : c \in DegenChanges} :
                abs(c2) >= abs(last.change_24h.val)
                => degen_score(last.mcap, Some(c2)).val.score >= last.end.val.score

\* C15 witness: a call with a market cap and a change for which a smaller market
\* cap and a larger change each give a strictly higher score.
C15_Witness ==
    /\ IsDegen /\ last.mcap # None /\ last.change_24h # None
    /\ \E m2 \in DegenMcaps :
          /\ m2 < last.mcap.val
          /\ degen_score(Some(m2), last.change_24h).val.score > last.end.val.score
    /\ \E c2 \in DegenChanges :
          /\ c2 > abs(last.change_24h.val)
          /\ degen_score(last.mcap, Some(c2)).val.score > last.end.val.score

\* the tiers as the specification lists them: inclusive lower bounds (millions)
McapTiers == {<<10000, 1>>, <<1000, 3>>, <<200, 5>>, <<50, 7>>, <<5, 8>>, <<0, 10>>}
McapTier(m) ==
    LET t == CHOOSE t \in McapTiers :
                 /\ t[1] <= m
                 /\ \A u \in McapTiers : u[1] <= m => u[1] <= t[1]
    IN t[2]
\* exclusive upper bounds
VolTiers == {<<2, 2>>, <<5, 4>>, <<10, 6>>, <<20, 8>>}
VolTier(c) ==
    IF c = None THEN 6
    ELSE IF \A t \in VolTiers : c.val >= t[1] THEN 10
    ELSE LET t == CHOOSE t \in VolTiers :
                      /\ c.val < t[1]
                      /\ \A u \in VolTiers : c.val < u[1] => t[1] <= u[1]
         IN t[2]
Buckets ==
    {<<"Blue-chip", 0, 20>>, <<"Large-cap", 20, 40>>, <<"Mid-cap", 40, 60>>,
     <<"Microcap", 60, 80>>, <<"Meme", 80, 100>>}

\* C16: degen_score returns None exactly for an unknown market cap; else the
\* score is 0.6 * mcap tier + 0.4 * vol tier clamped to [1, 10], the tiers being
\* those of the bounds 10B/1B/200M/50M/5M (inclusive) and of |change| < 2/5/10/20,
\* 6 for an unknown change, and the label is that of the one bucket (<= 2, <= 4,
\* <= 6, <= 8, else) that holds the score.
C16_ScoreAndLabel ==
    IsDegen
    => /\ (last.end = None) <=> (last.mcap = None)
       /\ last.mcap # None
          => LET raw == 6 * McapTier(last.mcap.val) + 4 * VolTier(Magnitude(last.change_24h))
                 score == IF raw < 10 THEN 10 ELSE IF raw > 100 THEN 100 ELSE raw
             IN
             /\ last.end.val.score = score
             /\ \E b \in Buckets :
                   /\ b[1] = last.end.val.label
                   /\ b[2] < score /\ score <= b[3]

\* C16 witness: scores on the upper bound of a bucket (8.0, labelled Microcap), and
\* a call with the change unknown.
C16_Witness ==
    /\ IsDegen /\ last.mcap # None
    /\ last.end.val.score = 80 /\ last.end.val.label = "Microcap"
    /\ McapTier(last.mcap.val) = 8
    /\ VolTier(Magnitude(last.change_24h)) = 8

(***************************************************************************)
(* The requests of one lookup.                                             *)
(***************************************************************************)
IsLookup == last.fn \in {PriceFn, McapFn, "get_historical_price_usd"}

\* the answer to the request the lookup logged as url
AnswerTo(url) == IF url = "search" THEN last.search ELSE last.fetch

\* a request that failed: no answer, or a status other than 200
Failed(response) == safe_get(response) = None

\* C17: a lookup issues each of its requests (search, spot price, market cap,
\* historical price) at most once, and a request that fails is its last one:
\* the lookup then returns None.
C17_NoRetry ==
    IsLookup
    => LET calls == last.end.calls IN
       /\ \A i, j \in DOMAIN calls : calls[i] = calls[j] => i = j
       /\ \A i \in DOMAIN calls :
             Failed(AnswerTo(calls[i]))
             => /\ i = Len(calls)
                /\ last.end.out = "return"
                /\ last.end.val = None

\* C17 witness: a cached lookup whose search failed, and which asked nothing
\* after it and returned None.
C17_Witness ==
    /\ last.fn = PriceFn
    /\ last.end.calls = <<"search">>
    /\ Failed(last.search)
    /\ last.end.out = "return" /\ last.end.val = None

(***************************************************************************)
(* The time an entry is stamped with.                                      *)
(***************************************************************************)
\* the call l missed the cache, fetched and got a value
Refreshed(l) ==
    /\ l.fn \in {PriceFn, McapFn}
    /\ Issues(l.end, FetchOf(l.fn))
    /\ l.end.out = "return"
    /\ l.end.val # None

\* C18 as stated: a lookup that misses and fetches with success stores the entry
\* with the time at which it writes it, resolution and fetch done (so that the
\* entry is served for a full TTL from the lookup's return).
C18_StampedAtWrite ==
    [][(IsCall /\ Refreshed(last'))
       => LET cache == IF last'.fn = PriceFn THEN PRICE_CACHE' ELSE MCAP_CACHE' IN
          cache[upper(last'.symbol)].ts = clock'
      ]_vars

\* C18 as the code has it: the entry is stored with the time the lookup read
\* when it was entered, before resolution and fetch; a later lookup of the
\* symbol is served from the cache, with no request, exactly when it is entered
\* less than TTL after that time.
C18_StampedAtEntry ==
    [][IsCall
       => /\ Refreshed(last')
             => LET cache == IF last'.fn = PriceFn THEN PRICE_CACHE' ELSE MCAP_CACHE' IN
                /\ cache[upper(last'.symbol)].ts = last'.now
                /\ ValueOf(last'.fn, cache[upper(last'.symbol)]) = last'.end.val.val
          /\ last'.fn \in {PriceFn, McapFn}
             => LET found == IF last'.fn = PriceFn THEN PRICE_CACHE ELSE MCAP_CACHE IN
                \A k \in Entries(found, last'.symbol) :
                    (last'.end.calls = <<>>) <=> (last'.now - found[k].ts < TTLOf(last'.fn))
      ]_vars

\* C18 witness: a price lookup that refreshed the entry and took a TTL or more
\* to do it: on its return the entry it wrote is already expired.
C18_Witness ==
    /\ Refreshed(last)
    /\ last.fn = PriceFn
    /\ clock - last.now >= PRICE_TTL
    /\ PRICE_CACHE[upper(last.symbol)].ts = last.now

(***************************************************************************)
(* The order of the lookups of calc_what_if_date.                          *)
(***************************************************************************)
\* the requests of a lookup that was made, none for one that was not
CallsOf(lookup) == IF lookup = NotAsked THEN <<>> ELSE lookup.calls

\* what C21 says of the call l
HistoricalFirst(l) ==
    /\ l.end.calls = CallsOf(l.historical) \o CallsOf(l.current) \o CallsOf(l.name)
    /\ ~Available(l.historical)
       => /\ l.current = NotAsked
          /\ l.name = NotAsked
          /\ ~Issues(l.end, "simple/price")
          /\ ~Issues(l.end, "coins")
          /\ PRICE_CACHE' = PRICE_CACHE
          /\ MCAP_CACHE' = MCAP_CACHE
    /\ l.name # NotAsked => Available(l.historical) /\ Available(l.current)
    /\ (l.name # NotAsked /\ ~Available(l.name))
       => /\ l.end.out = "return"
          /\ l.end.val # None
          /\ l.end.val.val.name = upper(l.symbol)

\* C21: calc_what_if_date looks up the historical price first; without it (a
\* malformed date included) it asks for no current price and no name and leaves
\* both caches as they were; it asks for the name only with both prices in hand,
\* and a name lookup that fails does not fail the call: the name is then the
\* upper-cased symbol.
C21_HistoricalFirst ==
    [][(last.fn # "calc_what_if_date" /\ last'.fn = "calc_what_if_date")
       => HistoricalFirst(last')]_vars

====
